---- MODULE Spec2Model ----
(***************************************************************************)
(* Model of src/executor.py: the workflow executor client.                  *)
(*                                                                          *)
(* main() loads the configuration, builds a task, opens one HTTP client,    *)
(* runs execute_task (sleep per step, status post per step, one result      *)
(* post) and releases the client.  Time is simulated time in half-seconds   *)
(* (the unit in which the demo durations 1.0, 2.0, 1.5 are whole numbers);  *)
(* it advances only in time.sleep.                                          *)
(***************************************************************************)
EXTENDS Integers, Sequences, FiniteSets, TLC

\* ------------------------------------------------------------------------
\* Bounds of the model
\* ------------------------------------------------------------------------
MaxSteps == 3
MaxTotal == 50

\* ------------------------------------------------------------------------
\* Python float arithmetic: int((index / total_steps) * 100), line 63.
\* A float is m * 2^e with a significand m of Precision bits (IEEE 754
\* binary64), kept as three limbs <<a, b, c>> of value a * Limb^2 + b * Limb
\* + c, the top limb a holding the Precision - 36 leading bits.  Every
\* operation rounds its exact result to nearest, ties to even.
\* ------------------------------------------------------------------------
Precision == 53

Limb == 2 ^ 18

TopBits == Precision - 36

\* F applied to the value of v, v evaluated once
With(v, F(_)) == CHOOSE r \in { F(x) : x \in {v} } : TRUE

\* m + 1
Increment(m) ==
    IF m[3] + 1 < Limb THEN <<m[1], m[2], m[3] + 1>>
    ELSE IF m[2] + 1 < Limb THEN <<m[1], m[2] + 1, 0>>
    ELSE <<m[1] + 1, 0, 0>>

\* m (+ 1 when rounding up) as a float of exponent e, the significand kept
\* to Precision bits
Rounded(m, up, e) ==
    With(IF up THEN Increment(m) ELSE m,
         LAMBDA r : IF r[1] >= 2 ^ TopBits
                    THEN [m |-> <<r[1] \div 2, 0, 0>>, e |-> e + 1]
                    ELSE [m |-> r, e |-> e])

\* the least k with i * 2^k >= n, for 1 <= i <= n
NormShift(i, n) == CHOOSE k \in 0..30 : i * 2 ^ k >= n /\ i * 2 ^ k < 2 * n

\* long division of x by n, n <= x < 2n, to Precision bits: the quotient
\* and what is left
DivLimbs(x, n) ==
    LET xa == x * 2 ^ (TopBits - 1)
        xb == (xa % n) * Limb
        xc == (xb % n) * Limb
    IN  [m |-> <<xa \div n, xb \div n, xc \div n>>, r |-> xc % n]

\* index / total_steps, for 1 <= i <= n, rounded on the remainder
FloatDiv(i, n) ==
    With(NormShift(i, n), LAMBDA k :
    With(DivLimbs(i * 2 ^ k, n), LAMBDA q :
        Rounded(q.m,
                2 * q.r > n \/ (2 * q.r = n /\ q.m[3] % 2 = 1),
                0 - k - (Precision - 1))))

\* the exact product m * f of a significand and a small factor; the top limb
\* takes the excess
MulLimbs(m, f) ==
    LET pc3 == m[3] * f
        pb  == m[2] * f + pc3 \div Limb
    IN  <<m[1] * f + pb \div Limb, pb % Limb, pc3 % Limb>>

\* the number of bits by which the top limb a exceeds TopBits bits
ExcessBits(a) == CHOOSE j \in 0..13 : a >= 2 ^ (TopBits - 1 + j) /\ a < 2 ^ (TopBits + j)

\* p shifted right by d bits, and the bits shifted out
ShiftDown(p, d) ==
    [m   |-> << p[1] \div 2 ^ d,
                p[2] \div 2 ^ d + (p[1] % 2 ^ d) * 2 ^ (18 - d),
                p[3] \div 2 ^ d + (p[2] % 2 ^ d) * 2 ^ (18 - d) >>,
     low |-> p[3] % 2 ^ d]

\* x * 100: the exact product, shifted down to Precision bits and rounded on
\* the bits shifted out
FloatMul100(x) ==
    With(MulLimbs(x.m, 100), LAMBDA p :
    With(ExcessBits(p[1]), LAMBDA d :
    With(ShiftDown(p, d), LAMBDA q :
        Rounded(q.m,
                d > 0 /\ (2 * q.low > 2 ^ d \/ (2 * q.low = 2 ^ d /\ q.m[3] % 2 = 1)),
                x.e + d))))

\* int(x) for x >= 0: truncation
FloatToInt(x) ==
    LET s == 0 - x.e
    IN  IF s >= 36 THEN x.m[1] \div 2 ^ (s - 36)
        ELSE IF s >= 18 THEN x.m[1] * 2 ^ (36 - s) + x.m[2] \div 2 ^ (s - 18)
        ELSE IF s >= 0
        THEN x.m[1] * 2 ^ (36 - s) + x.m[2] * 2 ^ (18 - s) + x.m[3] \div 2 ^ s
        ELSE (x.m[1] * Limb * Limb + x.m[2] * Limb + x.m[3]) * 2 ^ (0 - s)

\* mutant: the share of the steps that remain
ProgressRemaining(index, total_steps) ==
    IF total_steps = 0 THEN 100
    ELSE With(FloatDiv(total_steps - index + 1, total_steps), LAMBDA q :
         With(FloatMul100(q), LAMBDA p : FloatToInt(p)))

\* int((index / total_steps) * 100) if total_steps else 100
Progress(index, total_steps) ==
    IF total_steps = 0 THEN 100
    ELSE With(FloatDiv(index, total_steps), LAMBDA q :
         With(FloatMul100(q), LAMBDA p : FloatToInt(p)))

\* ------------------------------------------------------------------------
\* Values.  An optional key of a dict is a sequence: <<>> when the key is
\* absent, <<v>> when it is present with value v.
\* ------------------------------------------------------------------------
Get(opt, default) == IF opt = <<>> THEN default ELSE opt[1]

STATUS_ENDPOINT == "/executor/status"
RESULT_ENDPOINT == "/executor/result"

\* step.get("duration", 1.0), in half-seconds
DefaultDuration == 2

\* the wall clock when the process starts
Epoch == 7

NoExc == "none"

DemoTask ==
    [id     |-> <<"demo-task-001">>,
     steps  |-> << << [description |-> <<"Initialize environment">>, duration |-> <<2>>],
                      [description |-> <<"Process dataset">>, duration |-> <<4>>],
                      [description |-> <<"Finalize output">>, duration |-> <<3>>] >> >>,
     result |-> << [status |-> <<"success">>, output |-> <<"message+artifacts">>] >>]

\* Tasks execute_task is run on: the demo task, and tasks with any keys absent
StepPool ==
    { [description |-> <<"Process dataset">>, duration |-> <<4>>],
      [description |-> <<>>, duration |-> <<>>] }

StepLists == UNION { [1..n -> StepPool] : n \in 0..MaxSteps }

ResultPool ==
    { <<>>,
      << [status |-> <<>>, output |-> <<>>] >>,
      << [status |-> <<"failed">>, output |-> <<"partial">>] >> }

Tasks ==
    {DemoTask} \cup
    { [id |-> i, steps |-> s, result |-> r] :
        i \in {<<>>, <<"t1">>},
        s \in {<<>>} \cup { <<l>> : l \in StepLists },
        r \in ResultPool }

\* the state of the configuration file
Configs == {"ok", "missing", "malformed", "no_key"}

\* what client.post / raise_for_status can do: return a 2xx response, raise
\* HTTPStatusError, raise a TransportError, or raise an exception that is not
\* an httpx.HTTPError (httpx.InvalidURL, TypeError from the JSON encoder, ...)
PostOutcomes == {"ok", "status_error", "transport_error", "other_exception"}

VARIABLES
    pc,          \* position in main / execute_task
    cfg,         \* the configuration file
    task,        \* the task execute_task runs
    exc,         \* the exception propagating, NoExc when none
    client,      \* "none", "open", "closed"
    acquired,    \* number of httpx.Client objects created
    index,       \* loop index of execute_task
    clock,       \* time.time()
    start_time, end_time,
    sent,        \* every client.post attempt, in order
    events,      \* work and post_json calls, in order
    logs,        \* log records emitted (level INFO and above)
    exit_code,   \* <<>> while running
    p_index, p_total, p_out   \* the progress formula on its own

vars == <<pc, cfg, task, exc, client, acquired, index, clock, start_time, end_time,
          sent, events, logs, exit_code, p_index, p_total, p_out>>

runVars == <<pc, cfg, task, exc, client, acquired, index, clock, start_time, end_time,
             sent, events, logs, exit_code>>

\* ------------------------------------------------------------------------
\* execute_task's reads of the task
\* ------------------------------------------------------------------------
TaskId(t) == Get(t.id, "unknown")

StepsOf(t) == Get(t.steps, <<>>)

TotalSteps(t) == Len(StepsOf(t))

Description(step, i) == IF step.description = <<>> THEN <<"Step", i>> ELSE step.description

Duration(step) == Get(step.duration, DefaultDuration)

ResultOf(t) == Get(t.result, [status |-> <<>>, output |-> <<>>])

\* mutant: a failed post turns the reported status into "failed"
ResultStatusFromPosts(t) ==
    IF \E j \in 1..Len(sent) : sent[j].outcome # "ok"
    THEN "failed"
    ELSE Get(ResultOf(t).status, "success")

ResultStatus(t) == Get(ResultOf(t).status, "success")

ResultOutput(t) == Get(ResultOf(t).output, "{}")

\* enumerate(steps, start=1): the step number reported for loop index i
\* mutant: enumerate(steps) without start=1
StepNumberFromZero(i) == i - 1

StepNumber(i) == i

ProgressPayload(t, i, now) ==
    [task_id     |-> TaskId(t),
     step        |-> StepNumber(i),
     total_steps |-> TotalSteps(t),
     description |-> Description(StepsOf(t)[i], i),
     progress    |-> Progress(i, TotalSteps(t)),
     timestamp   |-> now]

\* mutant: the finish time reported as the duration
ElapsedAbsolute(started, finished) == finished

ElapsedTime(started, finished) == finished - started

ResultPayload(t, started, finished) ==
    [task_id     |-> TaskId(t),
     status      |-> ResultStatus(t),
     output      |-> ResultOutput(t),
     started_at  |-> started,
     finished_at |-> finished,
     duration    |-> ElapsedTime(started, finished)]

\* ------------------------------------------------------------------------
\* post_json
\* ------------------------------------------------------------------------
\* the outcomes that are instances of httpx.HTTPError
\* mutant: except httpx.HTTPStatusError
IsHTTPStatusErrorOnly(o) == o = "status_error"

IsHTTPError(o) == o \in {"status_error", "transport_error"}

\* try ... except httpx.HTTPError: post_json returns to its caller
\* mutant: no try/except around the post
PostJsonUnguarded(o) == o = "ok"

PostJsonReturns(o) == o = "ok" \/ IsHTTPError(o)

\* logging.debug is below the configured level; logging.error is emitted
PostJsonLog(o) == IF IsHTTPError(o) THEN <<"ERROR POST failed">> ELSE <<>>

Attempt(endpoint, payload, o) ==
    [endpoint |-> endpoint, payload |-> payload, outcome |-> o, client |-> client]

\* ------------------------------------------------------------------------
\* main
\* ------------------------------------------------------------------------
ConfigLoads(c) == c \in {"ok", "no_key"}

\* mutant: config.get("backend_url", default)
ConfigUrlDefaulted(c) == c \in {"ok", "no_key"}

ConfigHasUrl(c) == c = "ok"

LoadError(c) == IF c = "missing" THEN "FileNotFoundError" ELSE "JSONDecodeError"

\* the process exit code: 0 on return from main, 1 on an unhandled exception
ExitCode(e) == IF e = NoExc THEN 0 ELSE 1

\* the client after the with block is left, normally or by exception e
\* mutant: client.close() after execute_task, without a with block
ClientClosedOnReturnOnly(e) == IF e = NoExc THEN "closed" ELSE "open"

ClientAfterWith(e) == "closed"

Init ==
    /\ pc = "load_config"
    /\ cfg \in Configs
    /\ task \in Tasks
    /\ exc = NoExc
    /\ client = "none"
    /\ acquired = 0
    /\ index = 0
    /\ clock = Epoch
    /\ start_time = 0
    /\ end_time = 0
    /\ sent = <<>>
    /\ events = <<>>
    /\ logs = <<>>
    /\ exit_code = <<>>
    /\ p_index = 0
    /\ p_total = 0
    /\ p_out = <<>>

\* setup_logging(); config = load_config()
LoadConfig ==
    /\ pc = "load_config"
    /\ IF ConfigLoads(cfg)
       THEN /\ pc' = "read_url"
            /\ UNCHANGED <<exc, exit_code>>
       ELSE /\ pc' = "exit_fatal"
            /\ exc' = LoadError(cfg)
            /\ exit_code' = <<ExitCode(LoadError(cfg))>>
    /\ UNCHANGED <<cfg, task, client, acquired, index, clock, start_time, end_time,
                   sent, events, logs, p_index, p_total, p_out>>

\* backend_url = config["backend_url"].rstrip("/"); logging.info(...)
ReadBackendUrl ==
    /\ pc = "read_url"
    /\ IF ConfigHasUrl(cfg)
       THEN /\ pc' = "open_client"
            /\ logs' = Append(logs, "INFO Using backend URL")
            /\ UNCHANGED <<exc, exit_code>>
       ELSE /\ pc' = "exit_fatal"
            /\ exc' = "KeyError"
            /\ exit_code' = <<ExitCode("KeyError")>>
            /\ UNCHANGED logs
    /\ UNCHANGED <<cfg, task, client, acquired, index, clock, start_time, end_time,
                   sent, events, p_index, p_total, p_out>>

\* task = build_demo_task(); with httpx.Client(...) as client:
OpenClient ==
    /\ pc = "open_client"
    /\ client' = "open"
    /\ acquired' = acquired + 1
    /\ pc' = "start_task"
    /\ UNCHANGED <<cfg, task, exc, index, clock, start_time, end_time, sent, events,
                   logs, exit_code, p_index, p_total, p_out>>

\* execute_task up to the loop
StartTask ==
    /\ pc = "start_task"
    /\ logs' = Append(logs, "INFO Starting task")
    /\ start_time' = clock
    /\ index' = 0
    /\ pc' = "for"
    /\ UNCHANGED <<cfg, task, exc, client, acquired, clock, end_time, sent, events,
                   exit_code, p_index, p_total, p_out>>

\* for index, step in enumerate(steps, start=1)
ForNext ==
    /\ pc = "for"
    /\ IF index < TotalSteps(task)
       THEN /\ index' = index + 1
            /\ pc' = "sleep"
       ELSE /\ pc' = "result"
            /\ UNCHANGED index
    /\ UNCHANGED <<cfg, task, exc, client, acquired, clock, start_time, end_time, sent,
                   events, logs, exit_code, p_index, p_total, p_out>>

\* the simulated work of a step
StepSleep ==
    /\ pc = "sleep"
    /\ logs' = Append(logs, "INFO Executing step")
    /\ clock' = clock + Duration(StepsOf(task)[index])
    /\ events' = Append(events, <<"work", index>>)
    /\ pc' = "status"
    /\ UNCHANGED <<cfg, task, exc, client, acquired, index, start_time, end_time, sent,
                   exit_code, p_index, p_total, p_out>>

\* the status post of a step
StepStatusPost ==
    /\ pc = "status"
    /\ LET payload == ProgressPayload(task, index, clock)
       IN  \E o \in PostOutcomes :
             /\ sent' = Append(sent, Attempt(STATUS_ENDPOINT, payload, o))
             /\ events' = Append(events, <<"status", index>>)
             /\ logs' = logs \o PostJsonLog(o)
             /\ IF PostJsonReturns(o)
                THEN pc' = "for" /\ UNCHANGED exc
                ELSE pc' = "close_client" /\ exc' = o
    /\ UNCHANGED <<cfg, task, client, acquired, index, clock, start_time, end_time,
                   exit_code, p_index, p_total, p_out>>

\* the result post, and the log line after it
ResultPost ==
    /\ pc = "result"
    /\ end_time' = clock
    /\ LET payload == ResultPayload(task, start_time, clock)
       IN  \E o \in PostOutcomes :
             /\ sent' = Append(sent, Attempt(RESULT_ENDPOINT, payload, o))
             /\ events' = Append(events, <<"result">>)
             /\ IF PostJsonReturns(o)
                THEN /\ logs' = (logs \o PostJsonLog(o)) \o <<"INFO Task completed">>
                     /\ UNCHANGED exc
                ELSE /\ logs' = logs \o PostJsonLog(o)
                     /\ exc' = o
    /\ pc' = "close_client"
    /\ UNCHANGED <<cfg, task, client, acquired, index, clock, start_time, exit_code,
                   p_index, p_total, p_out>>

\* leaving the with block, and main
CloseClient ==
    /\ pc = "close_client"
    /\ client' = ClientAfterWith(exc)
    /\ pc' = IF exc = NoExc THEN "exit_ok" ELSE "exit_fatal"
    /\ exit_code' = <<ExitCode(exc)>>
    /\ UNCHANGED <<cfg, task, exc, acquired, index, clock, start_time, end_time, sent,
                   events, logs, p_index, p_total, p_out>>

Next ==
    \/ LoadConfig
    \/ ReadBackendUrl
    \/ OpenClient
    \/ StartTask
    \/ ForNext
    \/ StepSleep
    \/ StepStatusPost
    \/ ResultPost
    \/ CloseClient

Spec == Init /\ [][Next]_vars

\* the program is sequential: every step it can take, it takes
FairSpec == Spec /\ WF_vars(Next)

\* ------------------------------------------------------------------------
\* The progress formula on its own, over every index and total
\* ------------------------------------------------------------------------
InitProgress ==
    /\ pc = "progress"
    /\ cfg = "ok"
    /\ task = DemoTask
    /\ exc = NoExc
    /\ client = "none"
    /\ acquired = 0
    /\ index = 0
    /\ clock = Epoch
    /\ start_time = 0
    /\ end_time = 0
    /\ sent = <<>>
    /\ events = <<>>
    /\ logs = <<>>
    /\ exit_code = <<>>
    /\ p_total \in 1..MaxTotal
    /\ p_index \in 1..p_total
    /\ p_out = <<>>

ComputeProgress ==
    /\ p_out = <<>>
    /\ p_out' = <<Progress(p_index, p_total)>>
    /\ UNCHANGED <<runVars, p_index, p_total>>

NextProgress == ComputeProgress

SpecProgress == InitProgress /\ [][NextProgress]_vars

\* ------------------------------------------------------------------------
\* Properties
\* ------------------------------------------------------------------------
Total == TotalSteps(task)

StatusSent == SelectSeq(sent, LAMBDA a : a.endpoint = STATUS_ENDPOINT)

ResultSent == SelectSeq(sent, LAMBDA a : a.endpoint = RESULT_ENDPOINT)

HttpFailure(o) == o \in {"status_error", "transport_error"}

NonHttpFailure(o) == o = "other_exception"

PostCalls == Cardinality({ j \in 1..Len(events) : events[j][1] \in {"status", "result"} })

IsPrefix(s, t) == Len(s) <= Len(t) /\ \A j \in 1..Len(s) : s[j] = t[j]

\* work(1), status(1), ..., work(n), status(n), result
CanonicalEvents(n) ==
    [j \in 1..(2 * n + 1) |->
        IF j = 2 * n + 1 THEN <<"result">>
        ELSE IF j % 2 = 1 THEN <<"work", (j + 1) \div 2>>
        ELSE <<"status", j \div 2>>]

Exited == pc \in {"exit_ok", "exit_fatal"}

\* C1: for a task with at least one step, whatever the outcomes of the posts,
\* the progress values of the status payloads are non-decreasing in sending
\* order, and once the status post of every step has been sent the last one
\* carries exactly 100.
C1_ProgressMonotoneTo100 ==
    Total >= 1 =>
        /\ \A j \in 1..(Len(StatusSent) - 1) :
             StatusSent[j].payload.progress <= StatusSent[j + 1].payload.progress
        /\ Len(StatusSent) = Total =>
             StatusSent[Len(StatusSent)].payload.progress = 100

C1_Witness ==
    /\ pc = "exit_ok"
    /\ Total >= 2
    /\ Len(StatusSent) = Total
    /\ \E j \in 1..Total : HttpFailure(StatusSent[j].outcome)
    /\ StatusSent[1].payload.progress < StatusSent[Total].payload.progress

\* C2: an HTTP failure (transport error or error status) on a status post
\* does not abort execute_task: control returns to the loop with no exception
\* pending, the loop goes on to every remaining step, a run that ends
\* normally has worked and posted the status of every step and attempted the
\* result post exactly once, and no run is aborted by an HTTP failure.
C2_HttpFailureDoesNotAbort ==
    /\ [][(pc = "status" /\ Len(sent') = Len(sent) + 1
             /\ HttpFailure(sent'[Len(sent')].outcome))
          => (pc' = "for" /\ exc' = NoExc /\ index' = index)]_vars
    /\ [][(pc = "for" /\ index < Total) => (pc' = "sleep" /\ index' = index + 1)]_vars
    /\ [][(pc = "for" /\ index >= Total) => pc' = "result"]_vars
    /\ [](Len(ResultSent) <= 1)
    /\ [](pc = "exit_ok" =>
            /\ Len(StatusSent) = Total
            /\ Len(ResultSent) = 1
            /\ \A k \in 1..Total :
                 \E j \in 1..Len(events) : events[j] = <<"work", k>>)
    /\ [](exc \in PostOutcomes => NonHttpFailure(exc))

C2_Witness ==
    /\ pc = "exit_ok"
    /\ Total >= 2
    /\ HttpFailure(sent[1].outcome)
    /\ Len(StatusSent) = Total
    /\ Len(ResultSent) = 1

\* C3: a task with zero steps (empty or absent 'steps') does no work and
\* sends no status payload, and once execute_task is over exactly one result
\* payload has been sent, with duration = finished_at - started_at = 0.
C3_ZeroStepsResultOnly ==
    Total = 0 =>
        /\ Len(StatusSent) = 0
        /\ \A j \in 1..Len(events) : events[j] = <<"result">>
        /\ clock = Epoch
        /\ (pc \in {"close_client", "exit_ok", "exit_fatal"} /\ acquired >= 1) =>
             /\ Len(ResultSent) = 1
             /\ ResultSent[1].payload.duration = 0
             /\ ResultSent[1].payload.finished_at = ResultSent[1].payload.started_at

C3_Witness ==
    /\ task.steps = <<>>
    /\ pc = "exit_ok"
    /\ Len(sent) = 1
    /\ sent[1].endpoint = RESULT_ENDPOINT
    /\ sent[1].payload.duration = 0

\* C4: when the configuration cannot be loaded, or has no 'backend_url' key,
\* main raises (in the loader for a missing or unparsable file, at the read
\* of the key for a missing key) and the run ends in the fatal state with no
\* client created, no step executed and no post attempted.
C4_ConfigErrorBeforeNetwork ==
    cfg # "ok" =>
        /\ pc \in {"load_config", "read_url", "exit_fatal"}
        /\ acquired = 0
        /\ client = "none"
        /\ sent = <<>>
        /\ events = <<>>
        /\ pc = "read_url" => cfg = "no_key"
        /\ pc = "exit_fatal" =>
             /\ exit_code = <<1>>
             /\ exc = (IF cfg = "no_key" THEN "KeyError"
                       ELSE IF cfg = "missing" THEN "FileNotFoundError"
                       ELSE "JSONDecodeError")

C4_Witness ==
    /\ cfg = "no_key"
    /\ pc = "exit_fatal"
    /\ exc = "KeyError"
    /\ acquired = 0

\* C5: post_json never retries and never raises: every call makes exactly
\* one POST attempt, and whatever the outcome of the attempt no exception
\* reaches execute_task.
C5_PostJsonNeverRaises ==
    /\ Len(sent) = PostCalls
    /\ sent # <<>> => exc = NoExc

C7_ClientScoped ==
    /\ acquired <= 1
    /\ (client = "none") <=> (acquired = 0)
    /\ \A j \in 1..Len(sent) : sent[j].client = "open"
    /\ sent # <<>> => acquired = 1
    /\ client = "open" => pc \in {"start_task", "for", "sleep", "status", "result", "close_client"}
    /\ (Exited /\ acquired = 1) => client = "closed"
    /\ (Exited /\ cfg = "ok") => acquired = 1

C7_Witness ==
    /\ pc = "exit_fatal"
    /\ exc = "other_exception"
    /\ acquired = 1
    /\ client = "closed"
    /\ \E j \in 1..Len(sent) : HttpFailure(sent[j].outcome)

\* C8: for every total >= 1 and index in 1..total the progress sent equals
\* floor(index / total * 100) and lies in 0..100, and for three steps the
\* values are 33, 66, 100.
C8_ProgressIsFloor ==
    p_out # <<>> =>
        /\ p_out[1] = (100 * p_index) \div p_total
        /\ p_out[1] \in 0..100
        /\ p_total = 3 => p_out[1] = <<33, 66, 100>>[p_index]

\* C9: the events of a run are, in order, work(1), status post(1), ...,
\* work(N), status post(N), result post: at every moment the events so far
\* are a prefix of that sequence, a run that ends normally has produced all
\* of it, the j-th post carries step = j and total_steps = N, and the result
\* post comes after the N status posts and is the last post.
C9_EventOrder ==
    /\ IsPrefix(events, CanonicalEvents(Total))
    /\ pc = "exit_ok" => events = CanonicalEvents(Total)
    /\ Len(sent) = PostCalls
    /\ Len(sent) <= Total + 1
    /\ \A j \in 1..Len(sent) :
         IF j <= Total
         THEN /\ sent[j].endpoint = STATUS_ENDPOINT
              /\ sent[j].payload.step = j
              /\ sent[j].payload.total_steps = Total
         ELSE sent[j].endpoint = RESULT_ENDPOINT

C9_Witness ==
    /\ pc = "exit_ok"
    /\ Total = 3
    /\ events = CanonicalEvents(3)
    /\ sent[4].endpoint = RESULT_ENDPOINT

\* C10: what is sent does not depend on the outcomes of the posts: the j-th
\* post goes to the endpoint, and carries the payload (timestamps aside),
\* that the task alone determines; the result payload's status and output
\* are the task's result descriptor's, "success" and an empty output when
\* absent, also when posts have failed.
C10_ContentIndependentOfOutcomes ==
    \A j \in 1..Len(sent) :
        LET p == sent[j].payload
        IN  /\ p.task_id = (IF task.id = <<>> THEN "unknown" ELSE task.id[1])
            /\ IF j <= Total
               THEN /\ sent[j].endpoint = STATUS_ENDPOINT
                    /\ p.step = j
                    /\ p.total_steps = Total
                    /\ p.description =
                         (IF task.steps[1][j].description = <<>> THEN <<"Step", j>>
                          ELSE task.steps[1][j].description)
                    /\ p.progress = Progress(j, Total)
               ELSE /\ sent[j].endpoint = RESULT_ENDPOINT
                    /\ p.status =
                         (IF task.result = <<>> \/ task.result[1].status = <<>>
                          THEN "success" ELSE task.result[1].status[1])
                    /\ p.output =
                         (IF task.result = <<>> \/ task.result[1].output = <<>>
                          THEN "{}" ELSE task.result[1].output[1])

C10_Witness ==
    /\ pc = "exit_ok"
    /\ Total >= 2
    /\ task.result = <<>>
    /\ \A j \in 1..Total : HttpFailure(sent[j].outcome)
    /\ sent[Total + 1].payload.status = "success"
    /\ sent[Total + 1].payload.output = "{}"
====
